---- MODULE Spec2Model ----
(***************************************************************************)
(* Model of the service worker of Live-Captions-Saver (src/unnamed/        *)
(* part_000): the onMessage dispatcher, the session archive, the           *)
(* per-meeting screenshot buffer and the auto-save guard.                  *)
(*                                                                         *)
(* A request is one invocation of the async handler of onMessage.  It      *)
(* runs synchronously from one await to the next; an action of the model   *)
(* is the resumption of one request from the await it is parked on,        *)
(* together with all the synchronous code up to the next await.            *)
(* A chrome.storage operation takes effect, or fails, when it is issued    *)
(* (the storage backend serves operations in the order they are issued);   *)
(* its promise settles, and the request resumes, at any later step.        *)
(***************************************************************************)
EXTENDS Integers, Sequences, FiniteSets, TLC

\* ------------------------------------------------------------------ bounds
MaxSaveMsgs == 2        \* save_session_history requests per behaviour
MaxMsgs == 3            \* store_screenshot, update_badge_status and save_on_leave requests per behaviour
MaxFaults == 1          \* storage operations that fail per behaviour
MaxEntries == 2         \* entries of a transcript
MaxAliasLen == 3        \* characters of an alias
MaxTitlePieces == 4     \* pieces of a meeting title
MaxTranscriptLen == 250 \* entries of a transcript that is cut into chunks

\* ------------------------------------------------------- program constants
MaxSessions == 10       \* "Keep only last 10 sessions"
CHUNK_SIZE == 100
MAX_SCREENSHOTS_PER_MEETING == 20

\* ------------------------------------------------------------------ inputs
InitClock == 11         \* Date.now() when it is first read, after every stored timestamp

InitLens == {9, 10}     \* sizes of the session_index found in storage at start
SaveIds == {"k1", "k2"}  \* the values of `${meetingTitle}_${recordingStartTime}`
\* the save_on_leave messages: the saveId, and whether transcriptArray.length > 0
Leaves == {[saveId |-> "k1", captions |-> TRUE], [saveId |-> "k1", captions |-> FALSE],
           [saveId |-> "k2", captions |-> TRUE]}

MeetingIds == {"m1", "m2"}
NoMeeting == ""         \* a message without meetingId
InitShots == {19, 20}   \* frames found under screenshots_m1 at start; none under screenshots_m2
\* the store_screenshot messages: meetingId, and whether the screenshot has dataUrl and timestamp
Shots == {[meetingId |-> "m1", valid |-> TRUE], [meetingId |-> "m2", valid |-> TRUE],
          [meetingId |-> "m1", valid |-> FALSE]}

\* the update_badge_status messages: capturing and meetingId
Badges == {[capturing |-> TRUE, meetingId |-> "m1"], [capturing |-> FALSE, meetingId |-> "m1"],
           [capturing |-> FALSE, meetingId |-> NoMeeting]}

\* the sessions a message may carry: chunks.length and whether it has an attendeeReport
Sessions == {[nChunks |-> 0, attendeeReport |-> FALSE],
             [nChunks |-> 1, attendeeReport |-> TRUE],
             [nChunks |-> 2, attendeeReport |-> FALSE]}

Undefined == "undefined"  \* a setting, a field or a message field that is absent

\* Strings that are trimmed are sequences of characters; " " stands for
\* every white-space character.
Characters == {" ", "x"}
SpeakerNames == {<<"a">>, <<"b">>}   \* the values of entry.Name

\* the configuration documents: allowedSaveFormats is <<>> when the field is
\* absent and <<list>> when it is the array list
Configs ==
    {[allowedSaveFormats |-> <<>>, defaultSaveFormat |-> "md", autoSaveOnEnd |-> TRUE],
     [allowedSaveFormats |-> << <<>> >>, defaultSaveFormat |-> "md", autoSaveOnEnd |-> TRUE],
     [allowedSaveFormats |-> << <<"txt", "json">> >>, defaultSaveFormat |-> "md",
      autoSaveOnEnd |-> TRUE],
     [allowedSaveFormats |-> << <<"txt", "md">> >>, defaultSaveFormat |-> "md",
      autoSaveOnEnd |-> FALSE],
     [allowedSaveFormats |-> << <<"md", "txt">> >>, defaultSaveFormat |-> Undefined,
      autoSaveOnEnd |-> TRUE]}
\* the configuration of the behaviours that do not vary it
DefaultConfig ==
    [allowedSaveFormats |-> << <<"md", "txt">> >>, defaultSaveFormat |-> "md",
     autoSaveOnEnd |-> TRUE]
\* the values of message.format and of the stored 'defaultSaveFormat'
Formats == {"md", "txt", "json"}
StoredFormats == {Undefined, "txt", "json"}

VARIABLES
    clock,              \* the value Date.now() returned last, 0 before it is first read
    req,                \* the requests in flight, in order of arrival
    received,           \* number of events received, by listener
    saved,              \* number of save_session_history requests that ended without an error
    session_index,      \* chrome.storage.local: 'session_index'
    chunkKeys,          \* chrome.storage.local: the keys `${id}_chunk_${i}` as <<id, i>>
    attendeeKeys,       \* chrome.storage.local: the keys `${id}_attendees` as id
    savedBefore,        \* number of sessions saved before this process started
    faults,             \* number of storage operations that have failed
    screenshotBuffers,  \* the Map screenshotBuffers: meetingId -> frames
    screenshots,        \* chrome.storage.local: `screenshots_${meetingId}` -> frames
    appended,           \* per meetingId, the frames pushed so far, in the order of the pushes
    endedAt,            \* per meetingId, the arrival number of the last message that ended its capture
    storedAt,           \* per meetingId, the arrival number of the last store_screenshot for it
    lastAutoSaveId,     \* let lastAutoSaveId
    autoSaveInProgress, \* let autoSaveInProgress
    savedAt,            \* per saveId, the number of messages that had arrived when its save
                        \* last ended without an error; 0 if none did since the state was reset
    resets,             \* number of times a capture start has reset the auto-save state
    cachedConfig,       \* let cachedConfig: TRUE once the configuration is held
    autoSaveOnEnd,      \* chrome.storage.sync: 'autoSaveOnEnd'
    exports,            \* per saveId, the number of files handed to chrome.downloads.download
    dropped,            \* the save_on_leave requests skipped as duplicates
    failedIds,          \* the saveIds of the saves that raised an error
    config,             \* the configuration document behind CONFIG_URL
    defaultSaveFormat,  \* chrome.storage.sync: 'defaultSaveFormat'
    downloads,          \* the calls of chrome.downloads.download made so far
    fetches,            \* number of calls of fetch(CONFIG_URL)
    escaped,            \* the messages whose async handler ended with a rejection
    captionsToView,     \* chrome.storage.local: 'captionsToView' is present
    viewerTabs,         \* number of viewer.html tabs created
    speakerAliases,     \* chrome.storage.session: 'speakerAliases'
    objects,            \* the heap: the transcript entries, by reference
    transcriptArray,    \* message.transcriptArray: the references of its entries
    processed,          \* what applyAliasesToTranscript returned last
    exported,           \* the entries last formatted into an exported file
    archived,           \* the entries last persisted as chunks
    fullTitle,          \* the argument of getSanitizedMeetingName: <<>> when absent,
                        \* <<title>> when it is the string title
    sanitizedName,      \* <<name>> once getSanitizedMeetingName has returned name, <<>> before
    chunking            \* one save_session_history followed through lines 426-432: its
                        \* position, chunks, the chunks stored by index, and metadata.chunkCount

vars == <<clock, req, received, saved, session_index, chunkKeys, attendeeKeys,
          savedBefore, faults, screenshotBuffers, screenshots, appended, endedAt,
          storedAt, lastAutoSaveId, autoSaveInProgress, savedAt, resets, cachedConfig,
          autoSaveOnEnd, exports, dropped, failedIds, config, defaultSaveFormat,
          downloads, fetches, escaped, captionsToView, viewerTabs, speakerAliases,
          objects, transcriptArray, processed, exported, archived, fullTitle,
          sanitizedName, chunking>>

archiveStore == <<session_index, chunkKeys, attendeeKeys>>
archiveVars == <<clock, session_index, chunkKeys, attendeeKeys, savedBefore, saved>>
shotVars == <<screenshotBuffers, screenshots, appended, endedAt, storedAt>>
guardVars == <<lastAutoSaveId, autoSaveInProgress, savedAt, resets>>
leaveVars == <<cachedConfig, autoSaveOnEnd, exports, dropped, failedIds>>
settingVars == <<config, defaultSaveFormat>>
viewerVars == <<captionsToView, viewerTabs>>
aliasVars == <<speakerAliases, objects, transcriptArray, processed, exported, archived>>
utilVars == <<fullTitle, sanitizedName, chunking>>

Null == "null"          \* the value null of lastAutoSaveId

\* applyAliasesToTranscript was not called; nothing was exported or archived
NoResult == [array |-> "none", items |-> <<>>]
NoEntries == [done |-> FALSE, entries |-> <<>>]
NoChunking == [pc |-> "none", chunks |-> <<>>, stored |-> <<>>, chunkCount |-> 0]

Messages == {"save_session_history", "store_screenshot", "update_badge_status",
             "save_on_leave", "download_captions", "display_captions", "error_logged"}

\* what starts asynchronous work: onMessage by message, onInstalled /
\* onStartup, and the load of the worker script (line 107)
Listeners == Messages \cup {"onStartup", "load"}

\* --------------------------------------------------------------- helpers
\* Array.prototype.shift: the array without its first element
Shift(a) == Tail(a)

\* Insert e into the descending-sorted sequence s after every element that
\* does not order after it (Array.prototype.sort is stable).
RECURSIVE InsertDesc(_, _)
InsertDesc(s, e) ==
    IF s = <<>> THEN <<e>>
    ELSE IF e.timestamp > Head(s).timestamp THEN <<e>> \o s
    ELSE <<Head(s)>> \o InsertDesc(Tail(s), e)

RECURSIVE StableSortDesc(_)
StableSortDesc(s) ==
    IF s = <<>> THEN <<>>
    ELSE InsertDesc(StableSortDesc(SubSeq(s, 1, Len(s) - 1)), s[Len(s)])

NoSort(idx) == idx

\* session_index.sort((a, b) => new Date(b.timestamp) - new Date(a.timestamp))
SortByTimestamp(idx) == StableSortDesc(idx)

ExceedsCapLate(idx) == Len(idx) > MaxSessions + 1

\* if (session_index.length > 10)
ExceedsCap(idx) == Len(idx) > MaxSessions

\* keysToDelete of the entry toDelete: its chunk keys and its attendee key
ChunkKeysOf(e) == {<<e.id, i>> : i \in 0..(e.chunkCount - 1)}

\* the metadata of a request: id, timestamp and chunkCount
Metadata(q) == [id |-> q.sessionId, timestamp |-> q.timestamp, chunkCount |-> q.nChunks]

\* The sessions found in storage at start: k earlier saves, the j-th with
\* id j and timestamp j, newest first as every save leaves the index.
InitChunkCount(j) == j % 3
InitIndex(k) == [p \in 1..k |->
    [id |-> k + 1 - p, timestamp |-> k + 1 - p, chunkCount |-> InitChunkCount(k + 1 - p)]]

NoEntry == [id |-> 0, timestamp |-> 0, chunkCount |-> 0]

\* The values Date.now() may return: InitClock when first read, and later the
\* value it returned last or, a millisecond having passed, the next one.
DateNow == IF clock = 0 THEN {InitClock} ELSE {clock, clock + 1}

\* The outcomes of a storage operation: it succeeds, or it fails while the
\* behaviour has failures left.
Outcomes == IF faults < MaxFaults THEN BOOLEAN ELSE {TRUE}
Fault(ok) == faults' = IF ok THEN faults ELSE faults + 1

\* the number of events received so far
Arrivals == received["save_session_history"] + received["store_screenshot"]
            + received["update_badge_status"] + received["save_on_leave"]
            + received["download_captions"] + received["display_captions"]
            + received["error_logged"] + received["onStartup"] + received["load"]

\* the sequence s without its element at position r
Without(s, r) == SubSeq(s, 1, r - 1) \o SubSeq(s, r + 1, Len(s))

\* request r is over
Finish(r) == req' = Without(req, r)

\* request r goes on as q, parked on its next await; r = Len(req) + 1 is a
\* request that starts
Park(r, q) == req' = IF r = Len(req) + 1 THEN Append(req, q) ELSE [req EXCEPT ![r] = q]

\* request r is over because an awaited promise rejected outside every try
\* block: the promise of its async handler rejects
Escape(r) ==
    /\ Finish(r)
    /\ escaped' = escaped \cup {req[r].msg}

\* ------------------------------------------------------------------ Init
\* the module's own state when the service worker starts (lines 52-55, 302-303)
InitState ==
    /\ clock = 0
    /\ saved = 0
    /\ screenshotBuffers = <<>>
    /\ endedAt = [m \in MeetingIds |-> 0]
    /\ storedAt = [m \in MeetingIds |-> 0]
    /\ lastAutoSaveId = Null
    /\ autoSaveInProgress = FALSE
    /\ savedAt = [k \in SaveIds |-> 0]
    /\ resets = 0
    /\ cachedConfig = FALSE
    /\ exports = [k \in SaveIds |-> 0]
    /\ dropped = {}
    /\ failedIds = {}
    /\ downloads = {}
    /\ escaped = {}
    /\ captionsToView = FALSE
    /\ viewerTabs = 0

\* the worker with no request in flight: its start-up call of
\* ensureDefaultSettings (line 107) is over and has not loaded the
\* configuration; fetches counts the calls of fetch made from here on
InitWorker ==
    /\ InitState
    /\ received = [m \in Listeners |-> 0]
    /\ req = <<>>
    /\ faults = 0
    /\ fetches = 0

\* the configuration document and the stored default format do not vary
FixedSettings ==
    /\ config = DefaultConfig
    /\ defaultSaveFormat = Undefined

\* no utility function is under test
NoCall ==
    /\ fullTitle = <<>>
    /\ sanitizedName = <<>>
    /\ chunking = NoChunking

\* no aliases are stored and no transcript is processed
NoTranscript ==
    /\ NoCall
    /\ speakerAliases = <<>>
    /\ objects = <<>>
    /\ transcriptArray = <<>>
    /\ processed = NoResult
    /\ exported = NoEntries
    /\ archived = NoEntries

\* chrome.storage.local holds the k sessions saved before
StoredSessions(k) ==
    /\ savedBefore = k
    /\ session_index = InitIndex(k)
    /\ chunkKeys = UNION {ChunkKeysOf(InitIndex(k)[p]) : p \in 1..k}
    /\ attendeeKeys = {j \in 1..k : j % 2 = 1}

\* chrome.storage.local holds the k frames 1..k stored before for meeting m1
StoredScreenshots(k) ==
    /\ screenshots = IF k = 0 THEN <<>> ELSE [m \in {"m1"} |-> [f \in 1..k |-> f]]
    /\ appended = [m \in MeetingIds |-> IF m = "m1" THEN [f \in 1..k |-> f] ELSE <<>>]

InitArchive ==
    /\ InitWorker
    /\ FixedSettings
    /\ NoTranscript
    /\ autoSaveOnEnd = TRUE
    /\ \E k \in InitLens : StoredSessions(k)
    /\ StoredScreenshots(0)

InitGuard ==
    /\ InitWorker
    /\ FixedSettings
    /\ NoTranscript
    /\ autoSaveOnEnd \in BOOLEAN
    /\ StoredSessions(0)
    /\ StoredScreenshots(0)

InitScreenshots ==
    /\ InitWorker
    /\ FixedSettings
    /\ NoTranscript
    /\ autoSaveOnEnd = TRUE
    /\ StoredSessions(0)
    /\ \E k \in InitShots : StoredScreenshots(k)

\* ------------------------------------------------- save_session_history
\* onMessage: the listener starts the async handler, which parks on
\* chrome.storage.session.get('speakerAliases').
ReceiveSaveSessionHistory ==
    /\ received["save_session_history"] < MaxSaveMsgs
    /\ received' = [received EXCEPT !["save_session_history"] = @ + 1]
    /\ req' = Append(req, [msg |-> "save_session_history", pc |-> "aliases",
                           rej |-> FALSE, seq |-> Arrivals + 1, nChunks |-> 0, attendeeReport |-> FALSE,
                           sessionId |-> 0, timestamp |-> 0, i |-> 0,
                           idx |-> <<>>, toDelete |-> NoEntry])
    /\ UNCHANGED <<clock, saved, archiveStore, savedBefore, faults, shotVars, guardVars, leaveVars>>
    /\ UNCHANGED <<settingVars, viewerVars, aliasVars, utilVars, downloads, fetches, escaped>>

\* lines 464-466: the awaited operation failed, the catch block logs it
SaveCaught(r) ==
    /\ Finish(r)
    /\ UNCHANGED <<archiveStore, faults>>

\* lines 442-443: issue chrome.storage.local.get('session_index')
SaveIssueIndexGet(r, q) ==
    /\ \E ok \in Outcomes :
        /\ Fault(ok)
        /\ Park(r, [q EXCEPT !.pc = "index", !.rej = ~ok, !.i = 0,
                                !.idx = IF ok THEN session_index ELSE <<>>])
    /\ UNCHANGED archiveStore

\* lines 428-440 from the loop test at index i up to the next await
SaveIssueChunkOrLater(r, q, i) ==
    IF i < q.nChunks
    THEN \E ok \in Outcomes :
            /\ Fault(ok)
            /\ chunkKeys' = IF ok THEN chunkKeys \cup {<<q.sessionId, i>>} ELSE chunkKeys
            /\ Park(r, [q EXCEPT !.pc = "chunk", !.i = i, !.rej = ~ok])
            /\ UNCHANGED <<session_index, attendeeKeys>>
    ELSE IF q.attendeeReport
    THEN \E ok \in Outcomes :
            /\ Fault(ok)
            /\ attendeeKeys' = IF ok THEN attendeeKeys \cup {q.sessionId} ELSE attendeeKeys
            /\ Park(r, [q EXCEPT !.pc = "attendees", !.i = 0, !.rej = ~ok])
            /\ UNCHANGED <<session_index, chunkKeys>>
    ELSE SaveIssueIndexGet(r, q)

\* lines 458-461: sort the index and issue the write of 'session_index'
SaveIssueIndexSet(r, q, idx) ==
    \E ok \in Outcomes :
        /\ Fault(ok)
        /\ session_index' = IF ok THEN SortByTimestamp(idx) ELSE session_index
        /\ Park(r, [q EXCEPT !.pc = "write", !.rej = ~ok, !.idx = <<>>])
        /\ UNCHANGED <<chunkKeys, attendeeKeys>>

\* lines 399-432: the aliases are read; sessionId and metadata are made from
\* the clock, which may have advanced since it was last read
SaveSessionStart(r) ==
    /\ req[r].msg = "save_session_history" /\ req[r].pc = "aliases"
    /\ \E got \in Outcomes :
        IF ~got
        THEN /\ Fault(got)
             /\ Escape(r)
             /\ UNCHANGED <<clock, archiveStore>>
        ELSE \E now \in DateNow, m \in Sessions :
             /\ clock' = now
             /\ UNCHANGED escaped
             /\ SaveIssueChunkOrLater(r, [req[r] EXCEPT !.sessionId = now,
                                                        !.timestamp = now,
                                                        !.nChunks = m.nChunks,
                                                        !.attendeeReport = m.attendeeReport], 0)
    /\ UNCHANGED <<received, saved, savedBefore, shotVars, guardVars, leaveVars>>
    /\ UNCHANGED <<settingVars, viewerVars, aliasVars, utilVars, downloads, fetches>>

\* lines 428-432: chunk i is written, the loop goes on
SaveChunkWritten(r) ==
    /\ req[r].msg = "save_session_history" /\ req[r].pc = "chunk"
    /\ IF req[r].rej
       THEN SaveCaught(r)
       ELSE SaveIssueChunkOrLater(r, req[r], req[r].i + 1)
    /\ UNCHANGED <<clock, received, saved, savedBefore, shotVars, guardVars, leaveVars>>
    /\ UNCHANGED <<settingVars, viewerVars, aliasVars, utilVars, downloads, fetches, escaped>>

\* lines 436-443: the attendee report is written
SaveAttendeesWritten(r) ==
    /\ req[r].msg = "save_session_history" /\ req[r].pc = "attendees"
    /\ IF req[r].rej
       THEN SaveCaught(r)
       ELSE SaveIssueIndexGet(r, req[r])
    /\ UNCHANGED <<clock, received, saved, savedBefore, shotVars, guardVars, leaveVars>>
    /\ UNCHANGED <<settingVars, viewerVars, aliasVars, utilVars, downloads, fetches, escaped>>

\* lines 443-461: the index is read; push, then evict, or sort and write
SaveIndexLoaded(r) ==
    /\ req[r].msg = "save_session_history" /\ req[r].pc = "index"
    /\ IF req[r].rej
       THEN SaveCaught(r)
       ELSE LET pushed == Append(req[r].idx, Metadata(req[r]))
            IN  IF ExceedsCap(pushed)
                THEN LET toDelete == Head(pushed)
                     IN \E ok \in Outcomes :
                        /\ Fault(ok)
                        /\ chunkKeys' = IF ok THEN chunkKeys \ ChunkKeysOf(toDelete)
                                              ELSE chunkKeys
                        /\ attendeeKeys' = IF ok THEN attendeeKeys \ {toDelete.id}
                                                 ELSE attendeeKeys
                        /\ Park(r, [req[r] EXCEPT !.pc = "evict", !.rej = ~ok,
                                                      !.idx = Shift(pushed),
                                                      !.toDelete = toDelete])
                        /\ UNCHANGED session_index
                ELSE SaveIssueIndexSet(r, req[r], pushed)
    /\ UNCHANGED <<clock, received, saved, savedBefore, shotVars, guardVars, leaveVars>>
    /\ UNCHANGED <<settingVars, viewerVars, aliasVars, utilVars, downloads, fetches, escaped>>

\* lines 455-461: the evicted session's keys are removed
SaveEvicted(r) ==
    /\ req[r].msg = "save_session_history" /\ req[r].pc = "evict"
    /\ IF req[r].rej
       THEN SaveCaught(r)
       ELSE SaveIssueIndexSet(r, req[r], req[r].idx)
    /\ UNCHANGED <<clock, received, saved, savedBefore, shotVars, guardVars, leaveVars>>
    /\ UNCHANGED <<settingVars, viewerVars, aliasVars, utilVars, downloads, fetches, escaped>>

\* lines 461-467: the index is written, the request ends
SaveIndexWritten(r) ==
    /\ req[r].msg = "save_session_history" /\ req[r].pc = "write"
    /\ Finish(r)
    /\ saved' = IF req[r].rej THEN saved ELSE saved + 1
    /\ UNCHANGED <<clock, received, archiveStore, savedBefore, faults, shotVars, guardVars, leaveVars>>
    /\ UNCHANGED <<settingVars, viewerVars, aliasVars, utilVars, downloads, fetches, escaped>>

NextArchive ==
    \/ ReceiveSaveSessionHistory
    \/ \E r \in 1..Len(req) : SaveSessionStart(r)
    \/ \E r \in 1..Len(req) : SaveChunkWritten(r)
    \/ \E r \in 1..Len(req) : SaveAttendeesWritten(r)
    \/ \E r \in 1..Len(req) : SaveIndexLoaded(r)
    \/ \E r \in 1..Len(req) : SaveEvicted(r)
    \/ \E r \in 1..Len(req) : SaveIndexWritten(r)

SpecArchive == InitArchive /\ [][NextArchive]_vars

\* ------------------------------------------------------ store_screenshot
NoTrim(buffer) == buffer

\* lines 139-141: buffer.slice(-MAX_SCREENSHOTS_PER_MEETING) when over capacity
TrimBuffer(buffer) ==
    IF Len(buffer) > MAX_SCREENSHOTS_PER_MEETING
    THEN SubSeq(buffer, Len(buffer) - MAX_SCREENSHOTS_PER_MEETING + 1, Len(buffer))
    ELSE buffer

\* Map.prototype.set and Map.prototype.delete, and the same for storage keys
MapSet(map, key, value) == [k \in DOMAIN map \cup {key} |-> IF k = key THEN value ELSE map[k]]
MapDelete(map, key) == [k \in DOMAIN map \ {key} |-> map[k]]

\* the frame of the n-th store_screenshot message: none stored before equals it
Frame(n) == MAX_SCREENSHOTS_PER_MEETING + n

\* onMessage: a store_screenshot message for meetingId, whose screenshot has a
\* dataUrl and a timestamp or not; the handler parks on the read of the aliases
ReceiveStoreScreenshot ==
    /\ Arrivals < MaxMsgs
    /\ received' = [received EXCEPT !["store_screenshot"] = @ + 1]
    /\ \E shot \in Shots :
        /\ req' = Append(req, [msg |-> "store_screenshot", pc |-> "aliases", rej |-> FALSE,
                               seq |-> Arrivals + 1, meetingId |-> shot.meetingId,
                               valid |-> shot.valid,
                               screenshot |-> Frame(received["store_screenshot"] + 1),
                               stored |-> <<>>])
        /\ storedAt' = IF shot.meetingId \in MeetingIds /\ shot.valid
                       THEN [storedAt EXCEPT ![shot.meetingId] = Arrivals + 1]
                       ELSE storedAt
    /\ UNCHANGED <<faults, archiveVars, guardVars, leaveVars,
                   screenshotBuffers, screenshots, appended, endedAt>>
    /\ UNCHANGED <<settingVars, viewerVars, aliasVars, utilVars, downloads, fetches, escaped>>

\* lines 138-144: push the screenshot on buffer, trim it, put it in the Map
\* and issue the write of the storage key
StorePushAndSet(r, buffer) ==
    LET m == req[r].meetingId
        pushed == Append(buffer, req[r].screenshot)
        trimmed == TrimBuffer(pushed)
    IN  /\ appended' = [appended EXCEPT ![m] = Append(@, req[r].screenshot)]
        /\ screenshotBuffers' = MapSet(screenshotBuffers, m, trimmed)
        /\ \E ok \in Outcomes :
            /\ Fault(ok)
            /\ screenshots' = IF ok THEN MapSet(screenshots, m, trimmed) ELSE screenshots
            /\ Park(r, [req[r] EXCEPT !.pc = "set", !.rej = ~ok, !.stored = <<>>])

\* lines 399-401, 522-524, 125-134: the aliases are read; the request is
\* validated and the buffer taken from the Map, or its read from storage issued
StoreScreenshotStart(r) ==
    /\ req[r].msg = "store_screenshot" /\ req[r].pc = "aliases"
    /\ \E got \in Outcomes :
        IF ~got
        THEN /\ Fault(got)
             /\ Escape(r)
             /\ UNCHANGED <<screenshotBuffers, screenshots, appended>>
        ELSE IF req[r].meetingId = NoMeeting \/ ~req[r].valid
        THEN /\ Finish(r)
             /\ UNCHANGED <<faults, escaped, screenshotBuffers, screenshots, appended>>
        ELSE IF req[r].meetingId \in DOMAIN screenshotBuffers
        THEN /\ StorePushAndSet(r, screenshotBuffers[req[r].meetingId])
             /\ UNCHANGED escaped
        ELSE \E ok \in Outcomes :
             /\ Fault(ok)
             /\ Park(r, [req[r] EXCEPT !.pc = "get", !.rej = ~ok,
                            !.stored = IF ok /\ req[r].meetingId \in DOMAIN screenshots
                                       THEN screenshots[req[r].meetingId] ELSE <<>>])
             /\ UNCHANGED <<escaped, screenshotBuffers, screenshots, appended>>
    /\ UNCHANGED <<received, archiveVars, guardVars, leaveVars, endedAt, storedAt>>
    /\ UNCHANGED <<settingVars, viewerVars, aliasVars, utilVars, downloads, fetches>>

\* lines 134-144: the stored frames are read
StoreScreenshotLoaded(r) ==
    /\ req[r].msg = "store_screenshot" /\ req[r].pc = "get"
    /\ IF req[r].rej
       THEN /\ Finish(r)
            /\ UNCHANGED <<faults, screenshotBuffers, screenshots, appended>>
       ELSE StorePushAndSet(r, req[r].stored)
    /\ UNCHANGED <<received, archiveVars, guardVars, leaveVars, endedAt, storedAt>>
    /\ UNCHANGED <<settingVars, viewerVars, aliasVars, utilVars, downloads, fetches, escaped>>

\* lines 144-145, 524-528: the storage key is written, the request ends
StoreScreenshotWritten(r) ==
    /\ req[r].msg = "store_screenshot" /\ req[r].pc = "set"
    /\ Finish(r)
    /\ UNCHANGED <<received, faults, archiveVars, guardVars, leaveVars, shotVars>>
    /\ UNCHANGED <<settingVars, viewerVars, aliasVars, utilVars, downloads, fetches, escaped>>

\* --------------------------------------------------- update_badge_status
KeepsAutoSaveInProgress == autoSaveInProgress

\* lines 534-535: lastAutoSaveId = null; autoSaveInProgress = false
LastAutoSaveIdAfterReset == Null
AutoSaveInProgressAfterReset == FALSE

\* onMessage: an update_badge_status message with capturing and meetingId
ReceiveUpdateBadgeStatus ==
    /\ Arrivals < MaxMsgs
    /\ received' = [received EXCEPT !["update_badge_status"] = @ + 1]
    /\ \E badge \in Badges :
        /\ req' = Append(req, [msg |-> "update_badge_status", pc |-> "aliases", rej |-> FALSE,
                               seq |-> Arrivals + 1, capturing |-> badge.capturing,
                               meetingId |-> badge.meetingId])
        /\ endedAt' = IF ~badge.capturing /\ badge.meetingId \in MeetingIds
                      THEN [endedAt EXCEPT ![badge.meetingId] = Arrivals + 1]
                      ELSE endedAt
    /\ UNCHANGED <<faults, archiveVars, guardVars, leaveVars,
                   screenshotBuffers, screenshots, appended, storedAt>>
    /\ UNCHANGED <<settingVars, viewerVars, aliasVars, utilVars, downloads, fetches, escaped>>

\* lines 399-401, 530-539, 147-154: the aliases are read; a capture that
\* starts resets the auto-save state, a capture that ends drops the meeting's
\* buffer from the Map and issues the removal of its storage key
UpdateBadgeStatusStart(r) ==
    /\ req[r].msg = "update_badge_status" /\ req[r].pc = "aliases"
    /\ \E got \in Outcomes :
        IF ~got
        THEN /\ Fault(got)
             /\ Escape(r)
             /\ UNCHANGED <<guardVars, screenshotBuffers, screenshots>>
        ELSE IF req[r].capturing
        THEN /\ lastAutoSaveId' = LastAutoSaveIdAfterReset
             /\ autoSaveInProgress' = AutoSaveInProgressAfterReset
             /\ savedAt' = [k \in SaveIds |-> 0]
             /\ resets' = resets + 1
             /\ Finish(r)
             /\ UNCHANGED <<faults, escaped, screenshotBuffers, screenshots>>
        ELSE IF req[r].meetingId = NoMeeting
        THEN /\ Finish(r)
             /\ UNCHANGED <<faults, escaped, guardVars, screenshotBuffers, screenshots>>
        ELSE /\ screenshotBuffers' = MapDelete(screenshotBuffers, req[r].meetingId)
             /\ \E ok \in Outcomes :
                /\ Fault(ok)
                /\ screenshots' = IF ok THEN MapDelete(screenshots, req[r].meetingId)
                                        ELSE screenshots
                /\ Park(r, [req[r] EXCEPT !.pc = "remove", !.rej = ~ok])
             /\ UNCHANGED <<escaped, guardVars>>
    /\ UNCHANGED <<received, archiveVars, leaveVars, appended, endedAt, storedAt>>
    /\ UNCHANGED <<settingVars, viewerVars, aliasVars, utilVars, downloads, fetches>>

\* lines 154-155, 538-540: the storage key is removed, the request ends; a
\* removal that failed is caught nowhere
ClearScreenshotsDone(r) ==
    /\ req[r].msg = "update_badge_status" /\ req[r].pc = "remove"
    /\ IF req[r].rej
       THEN Escape(r)
       ELSE Finish(r) /\ UNCHANGED escaped
    /\ UNCHANGED <<received, faults, archiveVars, guardVars, leaveVars, shotVars>>
    /\ UNCHANGED <<settingVars, viewerVars, aliasVars, utilVars, downloads, fetches>>

NextScreenshots ==
    \/ ReceiveStoreScreenshot
    \/ ReceiveUpdateBadgeStatus
    \/ \E r \in 1..Len(req) : StoreScreenshotStart(r)
    \/ \E r \in 1..Len(req) : StoreScreenshotLoaded(r)
    \/ \E r \in 1..Len(req) : StoreScreenshotWritten(r)
    \/ \E r \in 1..Len(req) : UpdateBadgeStatusStart(r)
    \/ \E r \in 1..Len(req) : ClearScreenshotsDone(r)

SpecScreenshots == InitScreenshots /\ [][NextScreenshots]_vars

\* ----------------------------------------------------------------- aliases
\* String.prototype.trim
RECURSIVE TrimStart(_)
TrimStart(str) ==
    IF str # <<>> /\ Head(str) = " " THEN TrimStart(Tail(str)) ELSE str
RECURSIVE TrimEnd(_)
TrimEnd(str) ==
    IF str # <<>> /\ str[Len(str)] = " "
    THEN TrimEnd(SubSeq(str, 1, Len(str) - 1)) ELSE str
Trim(str) == TrimEnd(TrimStart(str))

UntrimmedAlias(name, aliases) ==
    IF name \in DOMAIN aliases /\ aliases[name] # <<>> THEN aliases[name] ELSE name

\* lines 18-21: aliases[entry.Name]?.trim() || entry.Name
NewName(name, aliases) ==
    IF name \in DOMAIN aliases /\ Trim(aliases[name]) # <<>>
    THEN Trim(aliases[name]) ELSE name

\* lines 13-24: applyAliasesToTranscript(transcriptArray, aliases) in the heap
\* objects: the array it returns and the heap it leaves. With no alias it
\* returns the array it was given; otherwise map and the spread make a new
\* array of new entries.
ApplyAliasesToTranscript(array, aliases) ==
    IF DOMAIN aliases = {}
    THEN [result |-> [array |-> "transcriptArray", items |-> array], objects |-> objects]
    ELSE [result |-> [array |-> "new",
                      items |-> [i \in 1..Len(array) |-> Len(objects) + i]],
          objects |-> objects \o
                [i \in 1..Len(array) |->
                    [objects[array[i]] EXCEPT !.Name = NewName(@, aliases)]]]

\* the entries an array of references holds
EntriesOf(items, heap) == [i \in 1..Len(items) |-> heap[items[i]]]

\* the transcripts of n entries: entry i has its own Time and Text, i
Transcripts(n) == [1..n -> SpeakerNames]
RECURSIVE Strings(_)
Strings(n) ==
    IF n = 0 THEN {<<>>}
    ELSE Strings(n - 1) \cup {Append(str, c) : str \in Strings(n - 1), c \in Characters}
\* the alias maps: a function from the aliased names to their aliases
AliasMaps == UNION {[names -> Strings(MaxAliasLen)] : names \in SUBSET SpeakerNames}

InitAliases ==
    /\ InitWorker
    /\ NoCall
    /\ FixedSettings
    /\ autoSaveOnEnd = TRUE
    /\ StoredSessions(0)
    /\ StoredScreenshots(0)
    /\ speakerAliases \in AliasMaps
    /\ \E n \in 0..MaxEntries : \E names \in Transcripts(n) :
        /\ objects = [i \in 1..n |-> [Name |-> names[i], Text |-> i]]
        /\ transcriptArray = [i \in 1..n |-> i]
    /\ processed = NoResult
    /\ exported = NoEntries
    /\ archived = NoEntries

otherVars == <<clock, req, received, saved, session_index, chunkKeys, attendeeKeys,
               savedBefore, faults, screenshotBuffers, screenshots, appended, endedAt,
               storedAt, lastAutoSaveId, autoSaveInProgress, savedAt, resets,
               cachedConfig, autoSaveOnEnd, exports, dropped, failedIds, config,
               defaultSaveFormat, downloads, fetches, escaped, captionsToView,
               viewerTabs, utilVars>>

\* a caller applies applyAliasesToTranscript to message.transcriptArray and
\* the stored aliases
CallApplyAliasesToTranscript ==
    /\ processed = NoResult
    /\ LET applied == ApplyAliasesToTranscript(transcriptArray, speakerAliases)
       IN  /\ processed' = applied.result
           /\ objects' = applied.objects
    /\ UNCHANGED <<otherVars, speakerAliases, transcriptArray, exported, archived>>

\* saveTranscript, lines 261 and 280-294: the entries formatted into the
\* exported file are those of processedTranscript
FormatTranscript ==
    /\ ~exported.done
    /\ LET applied == ApplyAliasesToTranscript(transcriptArray, speakerAliases)
       IN  /\ objects' = applied.objects
           /\ exported' = [done |-> TRUE,
                           entries |-> EntriesOf(applied.result.items, applied.objects)]
    /\ UNCHANGED <<otherVars, speakerAliases, transcriptArray, processed, archived>>

\* onMessage save_session_history, lines 407 and 427-431: the entries
\* persisted as chunks are those of message.transcriptArray
ArchiveTranscript ==
    /\ ~archived.done
    /\ archived' = [done |-> TRUE, entries |-> EntriesOf(transcriptArray, objects)]
    /\ UNCHANGED <<otherVars, speakerAliases, objects, transcriptArray, processed,
                   exported>>

NextAliases ==
    \/ CallApplyAliasesToTranscript
    \/ FormatTranscript
    \/ ArchiveTranscript

SpecAliases == InitAliases /\ [][NextAliases]_vars

\* ------------------------------------------------------ format resolution
\* config.allowedSaveFormats || ['md', 'txt']: an empty array is truthy
AllowedFormats(cfg) ==
    IF cfg.allowedSaveFormats = <<>> THEN <<"md", "txt">> ELSE cfg.allowedSaveFormats[1]

\* Array.prototype.includes
Includes(list, f) == \E p \in 1..Len(list) : list[p] = f

\* allowedFormats[0] || 'md'
FirstAllowedOrMd(allowedFormats) ==
    IF allowedFormats = <<>> THEN "md" ELSE allowedFormats[1]

SelectsFirstAllowed(format, cfg) ==
    IF Includes(AllowedFormats(cfg), format) THEN format
    ELSE FirstAllowedOrMd(AllowedFormats(cfg))

\* saveTranscript, lines 265-274: selectedFormat
SelectedFormat(format, cfg) ==
    LET allowedFormats == AllowedFormats(cfg)
        configDefault == cfg.defaultSaveFormat
    IN  IF Includes(allowedFormats, format) THEN format
        ELSE IF configDefault # Undefined /\ Includes(allowedFormats, configDefault)
        THEN configDefault
        ELSE FirstAllowedOrMd(allowedFormats)

\* onMessage save_on_leave, lines 496-504: formatToSave
FormatToSave(stored, cfg) ==
    LET allowedFormats == AllowedFormats(cfg)
    IN  IF stored = Undefined \/ ~Includes(allowedFormats, stored)
        THEN IF cfg.defaultSaveFormat # Undefined
                /\ Includes(allowedFormats, cfg.defaultSaveFormat)
             THEN cfg.defaultSaveFormat
             ELSE FirstAllowedOrMd(allowedFormats)
        ELSE stored

\* popup.js loadSettings, lines 162-166: currentDefaultFormat
CurrentDefaultFormat(stored, cfg) ==
    LET allowedFormats == AllowedFormats(cfg)
        storedFormat == IF stored # Undefined /\ Includes(allowedFormats, stored)
                        THEN stored ELSE Undefined
    IN  IF storedFormat # Undefined THEN storedFormat
        ELSE IF cfg.defaultSaveFormat # Undefined THEN cfg.defaultSaveFormat
        ELSE FirstAllowedOrMd(allowedFormats)

\* saveTranscript, lines 282-294: the switch on selectedFormat
Extension(selectedFormat) == IF selectedFormat = "md" THEN "md" ELSE "txt"
MimeType(selectedFormat) ==
    IF selectedFormat = "md" THEN "text/markdown" ELSE "text/plain"

\* the call of chrome.downloads.download that saveTranscript(format, saveAsPrompt),
\* called for message by, ends in: the value of {format} in the file name,
\* the extension, the MIME type and saveAs; and whether autoSaveInProgress
\* was set when it was made
Download(by, format, saveAsPrompt) ==
    LET selectedFormat == SelectedFormat(format, config)
    IN  [by |-> by, requested |-> format, format |-> selectedFormat,
         extension |-> Extension(selectedFormat),
         mimeType |-> MimeType(selectedFormat), saveAs |-> saveAsPrompt,
         inProgress |-> autoSaveInProgress]

\* Format resolution on its own: the configuration and the stored default
\* format vary, and saveTranscript is applied to the formats its callers pass.
InitFormat ==
    /\ InitWorker
    /\ NoTranscript
    /\ autoSaveOnEnd = TRUE
    /\ StoredSessions(0)
    /\ StoredScreenshots(0)
    /\ config \in Configs
    /\ defaultSaveFormat \in StoredFormats

formatFixed == <<clock, req, received, saved, session_index, chunkKeys, attendeeKeys,
                 savedBefore, faults, shotVars, guardVars, leaveVars, settingVars,
                 fetches, escaped, viewerVars, aliasVars, utilVars>>

\* onMessage download_captions, line 476: saveTranscript(message.format, true),
\* message.format being any format, absent, or the currentDefaultFormat of
\* the popup (popup.js, line 191)
SaveTranscriptRequested ==
    /\ \E format \in Formats \cup {Undefined, CurrentDefaultFormat(defaultSaveFormat, config)} :
        downloads' = downloads \cup {Download("download_captions", format, TRUE)}
    /\ UNCHANGED formatFixed

\* onMessage save_on_leave, lines 496-506: saveTranscript(formatToSave, false)
SaveTranscriptAutoSave ==
    /\ downloads' = downloads \cup
            {Download("save_on_leave", FormatToSave(defaultSaveFormat, config), FALSE)}
    /\ UNCHANGED formatFixed

NextFormat ==
    \/ SaveTranscriptRequested
    \/ SaveTranscriptAutoSave

SpecFormat == InitFormat /\ [][NextFormat]_vars

\* ---------------------------------------------------------- save_on_leave
SkipsCompletedOnly(saveId) == lastAutoSaveId = saveId

\* line 484: if (autoSaveInProgress || lastAutoSaveId === saveId)
IsDuplicateSave(saveId) == autoSaveInProgress \/ lastAutoSaveId = saveId

KeepsLastAutoSaveId == lastAutoSaveId

\* line 512, in the catch block: lastAutoSaveId = null
LastAutoSaveIdAfterError == Null

IgnoresAutoSaveOnEnd(settings, captions) == captions

\* line 494: if (settings.autoSaveOnEnd && message.transcriptArray.length > 0)
ShouldAutoSave(settings, captions) == settings.autoSaveOnEnd /\ captions

\* what chrome.storage.sync.get(['autoSaveOnEnd', 'defaultSaveFormat']) reads
Settings == [autoSaveOnEnd |-> autoSaveOnEnd, defaultSaveFormat |-> defaultSaveFormat]
NoSettings == [autoSaveOnEnd |-> FALSE, defaultSaveFormat |-> Undefined]

\* lines 57-62: request r, going on as q, awaits loadExtensionConfig(), which
\* calls fetch(CONFIG_URL) unless the configuration is cached
LoadExtensionConfig(r, q) ==
    IF cachedConfig
    THEN /\ Park(r, [q EXCEPT !.pc = "config", !.rej = FALSE, !.fetching = FALSE])
         /\ UNCHANGED <<faults, fetches>>
    ELSE /\ fetches' = fetches + 1
         /\ \E ok \in Outcomes :
            /\ Fault(ok)
            /\ Park(r, [q EXCEPT !.pc = "config", !.rej = ~ok, !.fetching = TRUE])

\* lines 63-64: cachedConfig = await response.json() in the call that fetched
ConfigLoaded(r) == cachedConfig' = IF req[r].fetching THEN TRUE ELSE cachedConfig

\* onMessage: a save_on_leave message; the handler parks on the read of the aliases
ReceiveSaveOnLeave ==
    /\ Arrivals < MaxMsgs
    /\ received' = [received EXCEPT !["save_on_leave"] = @ + 1]
    /\ \E leave \in Leaves :
        req' = Append(req, [msg |-> "save_on_leave", pc |-> "aliases", rej |-> FALSE,
                            seq |-> Arrivals + 1, saveId |-> leave.saveId,
                            captions |-> leave.captions, fetching |-> FALSE,
                            epoch |-> 0, again |-> FALSE, retry |-> FALSE,
                            settings |-> NoSettings, formatToSave |-> Undefined])
    /\ UNCHANGED <<faults, archiveVars, shotVars, guardVars, leaveVars>>
    /\ UNCHANGED <<settingVars, viewerVars, aliasVars, utilVars, downloads, fetches, escaped>>

StaysInProgress == autoSaveInProgress

\* lines 513-515, the finally block: autoSaveInProgress = false
AutoSaveInProgressAfterSave == FALSE

\* lines 509-516: the catch block and the finally block, the request ends
LeaveCaught(r) ==
    /\ lastAutoSaveId' = LastAutoSaveIdAfterError
    /\ autoSaveInProgress' = AutoSaveInProgressAfterSave
    /\ failedIds' = failedIds \cup {req[r].saveId}
    /\ Finish(r)
    /\ UNCHANGED <<faults, savedAt, resets, cachedConfig, exports>>

ForgetsLastAutoSaveId == Null

\* lines 492-515: the try block ends without an error, with or without an
\* export; nothing assigns lastAutoSaveId
LastAutoSaveIdAfterSave == lastAutoSaveId

\* lines 513-516: the try block ended without an error; the finally block
LeaveCompleted(r) ==
    /\ autoSaveInProgress' = AutoSaveInProgressAfterSave
    /\ lastAutoSaveId' = LastAutoSaveIdAfterSave
    /\ savedAt' = IF req[r].epoch = resets
                  THEN [savedAt EXCEPT ![req[r].saveId] = Arrivals]
                  ELSE savedAt
    /\ Finish(r)
    /\ UNCHANGED <<resets, failedIds>>

\* lines 399-401, 479-493: the aliases are read; a duplicate is skipped,
\* any other request marks the state and issues the read of the settings
SaveOnLeaveStart(r) ==
    /\ req[r].msg = "save_on_leave" /\ req[r].pc = "aliases"
    /\ \E got \in Outcomes :
        IF ~got
        THEN /\ Fault(got)
             /\ Escape(r)
             /\ UNCHANGED <<guardVars, dropped>>
        ELSE IF IsDuplicateSave(req[r].saveId)
        THEN /\ dropped' = dropped \cup {[saveId |-> req[r].saveId,
                                          inProgress |-> autoSaveInProgress,
                                          last |-> lastAutoSaveId]}
             /\ Finish(r)
             /\ UNCHANGED <<faults, escaped, guardVars>>
        ELSE /\ autoSaveInProgress' = TRUE
             /\ lastAutoSaveId' = req[r].saveId
             /\ \E ok \in Outcomes :
                /\ Fault(ok)
                /\ Park(r, [req[r] EXCEPT
                        !.pc = "settings", !.rej = ~ok, !.epoch = resets,
                        !.again = savedAt[req[r].saveId] > 0
                                  /\ req[r].seq > savedAt[req[r].saveId],
                        !.retry = req[r].saveId \in failedIds,
                        !.settings = IF ok THEN Settings ELSE NoSettings])
             /\ UNCHANGED <<escaped, savedAt, resets, dropped>>
    /\ UNCHANGED <<received, archiveVars, shotVars, cachedConfig, autoSaveOnEnd, exports,
                   failedIds>>
    /\ UNCHANGED <<settingVars, viewerVars, aliasVars, utilVars, downloads, fetches>>

\* lines 493-495, 57-62: the settings are read; with auto-save on and a
\* transcript, loadExtensionConfig is awaited, which fetches the
\* configuration unless it is cached
SaveOnLeaveSettings(r) ==
    /\ req[r].msg = "save_on_leave" /\ req[r].pc = "settings"
    /\ IF req[r].rej
       THEN LeaveCaught(r) /\ UNCHANGED fetches
       ELSE IF ShouldAutoSave(req[r].settings, req[r].captions)
       THEN /\ LoadExtensionConfig(r, req[r])
            /\ UNCHANGED <<guardVars, cachedConfig, exports, failedIds>>
       ELSE /\ LeaveCompleted(r)
            /\ UNCHANGED <<faults, fetches, cachedConfig, exports>>
    /\ UNCHANGED <<received, archiveVars, shotVars, autoSaveOnEnd, dropped>>
    /\ UNCHANGED <<settingVars, viewerVars, aliasVars, utilVars, downloads, escaped>>

\* lines 63-64, 495-506, 260-277: the configuration is held and formatToSave
\* made; saveTranscript is called, finds the configuration cached and
\* issues its read of 'filenamePattern'
SaveOnLeaveConfig(r) ==
    /\ req[r].msg = "save_on_leave" /\ req[r].pc = "config"
    /\ IF req[r].rej
       THEN LeaveCaught(r)
       ELSE /\ ConfigLoaded(r)
            /\ \E ok \in Outcomes :
                /\ Fault(ok)
                /\ Park(r, [req[r] EXCEPT
                        !.pc = "pattern", !.rej = ~ok, !.fetching = FALSE,
                        !.formatToSave = FormatToSave(req[r].settings.defaultSaveFormat,
                                                      config)])
            /\ UNCHANGED <<guardVars, exports, failedIds>>
    /\ UNCHANGED <<received, archiveVars, shotVars, autoSaveOnEnd, dropped>>
    /\ UNCHANGED <<settingVars, viewerVars, aliasVars, utilVars, downloads, fetches, escaped>>

\* lines 277-298, 212-218, 506-516: the pattern is read; the file is handed
\* to chrome.downloads.download and the request ends (downloadFile is not
\* awaited, and catches the failure of its own notification of the viewers)
SaveOnLeaveExport(r) ==
    /\ req[r].msg = "save_on_leave" /\ req[r].pc = "pattern"
    /\ IF req[r].rej
       THEN LeaveCaught(r) /\ UNCHANGED downloads
       ELSE /\ exports' = [exports EXCEPT ![req[r].saveId] = @ + 1]
            /\ downloads' = downloads \cup
                    {Download("save_on_leave", req[r].formatToSave, FALSE)}
            /\ LeaveCompleted(r)
            /\ UNCHANGED <<faults, cachedConfig>>
    /\ UNCHANGED <<received, archiveVars, shotVars, autoSaveOnEnd, dropped>>
    /\ UNCHANGED <<settingVars, viewerVars, aliasVars, utilVars, fetches, escaped>>

NextGuard ==
    \/ ReceiveSaveOnLeave
    \/ ReceiveUpdateBadgeStatus
    \/ \E r \in 1..Len(req) : SaveOnLeaveStart(r)
    \/ \E r \in 1..Len(req) : SaveOnLeaveSettings(r)
    \/ \E r \in 1..Len(req) : SaveOnLeaveConfig(r)
    \/ \E r \in 1..Len(req) : SaveOnLeaveExport(r)
    \/ \E r \in 1..Len(req) : UpdateBadgeStatusStart(r)
    \/ \E r \in 1..Len(req) : ClearScreenshotsDone(r)

SpecGuard == InitGuard /\ [][NextGuard]_vars

\* the handler of the n-th message goes on from the await it is parked on
Resume(n) ==
    \E r \in 1..Len(req) :
        /\ req[r].seq = n
        /\ \/ SaveOnLeaveStart(r)
           \/ SaveOnLeaveSettings(r)
           \/ SaveOnLeaveConfig(r)
           \/ SaveOnLeaveExport(r)
           \/ UpdateBadgeStatusStart(r)
           \/ ClearScreenshotsDone(r)

\* Every awaited operation completes or fails, and the event loop then
\* runs the handler that awaits it.
FairSpecGuard == SpecGuard /\ \A n \in 1..MaxMsgs : WF_vars(Resume(n))

\* ---------------------------------------------------- ensureDefaultSettings
\* the download_captions messages: message.format
RequestedFormats == {"md", "json"}

\* lines 86-97: the value updates.defaultSaveFormat gets, Undefined if none
DefaultSaveFormatUpdate(stored, cfg) ==
    IF cfg.allowedSaveFormats # <<>>
       /\ ~Includes(cfg.allowedSaveFormats[1], cfg.defaultSaveFormat)
    THEN FirstAllowedOrMd(cfg.allowedSaveFormats[1])
    ELSE IF cfg.defaultSaveFormat # Undefined
            /\ stored.defaultSaveFormat # cfg.defaultSaveFormat
    THEN cfg.defaultSaveFormat
    ELSE Undefined

\* lines 85-97: updates, for the two settings of the eleven that the model holds
Updates(stored, cfg) ==
    LET format == DefaultSaveFormatUpdate(stored, cfg)
        keys == (IF stored.autoSaveOnEnd # cfg.autoSaveOnEnd
                 THEN {"autoSaveOnEnd"} ELSE {})
                \cup (IF format # Undefined THEN {"defaultSaveFormat"} ELSE {})
    IN  [key \in keys |-> IF key = "autoSaveOnEnd" THEN cfg.autoSaveOnEnd ELSE format]

\* a call of ensureDefaultSettings at its first await, line 69; settled
\* tells whether, when it was made, every earlier call had come to its end
\* and nothing had failed
EnsureRequest(n) ==
    [msg |-> "ensureDefaultSettings", pc |-> "config", rej |-> FALSE, seq |-> n,
     fetching |-> TRUE, settings |-> NoSettings,
     settled |-> (n > 1 /\ req = <<>> /\ faults = 0)]

\* line 107: the worker has been loaded; its call of ensureDefaultSettings
\* has called fetch(CONFIG_URL) and awaits it
InitLoaded ==
    /\ InitState
    /\ received = [m \in Listeners |-> IF m = "load" THEN 1 ELSE 0]
    /\ fetches = 1
    /\ \E ok \in (IF MaxFaults > 0 THEN BOOLEAN ELSE {TRUE}) :
        /\ faults = IF ok THEN 0 ELSE 1
        /\ req = <<[EnsureRequest(1) EXCEPT !.rej = ~ok]>>

InitDispatch ==
    /\ InitLoaded
    /\ FixedSettings
    /\ NoTranscript
    /\ autoSaveOnEnd \in BOOLEAN
    /\ StoredSessions(0)
    /\ StoredScreenshots(0)

\* lines 361-369, 67-69: onInstalled or onStartup fires; the listener calls
\* updateBadge(false) and ensureDefaultSettings(), which awaits loadExtensionConfig()
OnStartup ==
    /\ Arrivals < MaxMsgs
    /\ received' = [received EXCEPT !["onStartup"] = @ + 1]
    /\ LoadExtensionConfig(Len(req) + 1, EnsureRequest(Arrivals + 1))
    /\ UNCHANGED <<archiveVars, shotVars, guardVars, leaveVars>>
    /\ UNCHANGED <<settingVars, viewerVars, aliasVars, utilVars, downloads, escaped>>

\* lines 63-64, 69-84: the configuration is held; the stored settings are
\* read. Line 102: a rejection is caught and the call ends.
EnsureConfig(r) ==
    /\ req[r].msg = "ensureDefaultSettings" /\ req[r].pc = "config"
    /\ IF req[r].rej
       THEN Finish(r) /\ UNCHANGED <<faults, cachedConfig>>
       ELSE /\ ConfigLoaded(r)
            /\ \E ok \in Outcomes :
                /\ Fault(ok)
                /\ Park(r, [req[r] EXCEPT
                        !.pc = "stored", !.rej = ~ok, !.fetching = FALSE,
                        !.settings = IF ok THEN Settings ELSE NoSettings])
    /\ UNCHANGED <<received, archiveVars, shotVars, guardVars, autoSaveOnEnd, exports,
                   dropped, failedIds>>
    /\ UNCHANGED <<settingVars, viewerVars, aliasVars, utilVars, downloads, fetches, escaped>>

\* lines 84-101: the updates are made from the settings read and, if there
\* are any, written with chrome.storage.sync.set
EnsureStored(r) ==
    /\ req[r].msg = "ensureDefaultSettings" /\ req[r].pc = "stored"
    /\ LET updates == Updates(req[r].settings, config)
           written(key, value) == IF key \in DOMAIN updates THEN updates[key] ELSE value
       IN  IF req[r].rej \/ DOMAIN updates = {}
           THEN Finish(r) /\ UNCHANGED <<faults, autoSaveOnEnd, defaultSaveFormat>>
           ELSE \E ok \in Outcomes :
                /\ Fault(ok)
                /\ autoSaveOnEnd' =
                        IF ok THEN written("autoSaveOnEnd", autoSaveOnEnd) ELSE autoSaveOnEnd
                /\ defaultSaveFormat' =
                        IF ok THEN written("defaultSaveFormat", defaultSaveFormat)
                        ELSE defaultSaveFormat
                /\ Park(r, [req[r] EXCEPT !.pc = "update", !.rej = ~ok])
    /\ UNCHANGED <<received, archiveVars, shotVars, guardVars, cachedConfig, exports,
                   dropped, failedIds>>
    /\ UNCHANGED <<config, viewerVars, aliasVars, utilVars, downloads, fetches, escaped>>

\* lines 100-104: the settings are written, or the rejection is caught
EnsureUpdated(r) ==
    /\ req[r].msg = "ensureDefaultSettings" /\ req[r].pc = "update"
    /\ Finish(r)
    /\ UNCHANGED <<received, faults, archiveVars, shotVars, guardVars, leaveVars>>
    /\ UNCHANGED <<settingVars, viewerVars, aliasVars, utilVars, downloads, fetches, escaped>>

\* ------------------------------------------------------- download_captions
\* onMessage: a download_captions message; the handler parks on the read of the aliases
ReceiveDownloadCaptions ==
    /\ Arrivals < MaxMsgs
    /\ received' = [received EXCEPT !["download_captions"] = @ + 1]
    /\ \E format \in RequestedFormats :
        req' = Append(req, [msg |-> "download_captions", pc |-> "aliases", rej |-> FALSE,
                            seq |-> Arrivals + 1, format |-> format, fetching |-> FALSE])
    /\ UNCHANGED <<faults, archiveVars, shotVars, guardVars, leaveVars>>
    /\ UNCHANGED <<settingVars, viewerVars, aliasVars, utilVars, downloads, fetches, escaped>>

\* lines 399-401, 469-476, 260-264: the aliases are read; saveTranscript is
\* called, outside any try block, and awaits loadExtensionConfig()
DownloadCaptionsStart(r) ==
    /\ req[r].msg = "download_captions" /\ req[r].pc = "aliases"
    /\ \E got \in Outcomes :
        IF ~got
        THEN Fault(got) /\ Escape(r) /\ UNCHANGED fetches
        ELSE LoadExtensionConfig(r, req[r]) /\ UNCHANGED escaped
    /\ UNCHANGED <<received, archiveVars, shotVars, guardVars, leaveVars>>
    /\ UNCHANGED <<settingVars, viewerVars, aliasVars, utilVars, downloads>>

\* lines 63-64, 265-277: the configuration is held, the format selected and
\* the read of 'filenamePattern' issued
DownloadCaptionsConfig(r) ==
    /\ req[r].msg = "download_captions" /\ req[r].pc = "config"
    /\ IF req[r].rej
       THEN Escape(r) /\ UNCHANGED <<faults, cachedConfig>>
       ELSE /\ ConfigLoaded(r)
            /\ \E ok \in Outcomes :
                /\ Fault(ok)
                /\ Park(r, [req[r] EXCEPT !.pc = "pattern", !.rej = ~ok,
                                           !.fetching = FALSE])
            /\ UNCHANGED escaped
    /\ UNCHANGED <<received, archiveVars, shotVars, guardVars, autoSaveOnEnd, exports,
                   dropped, failedIds>>
    /\ UNCHANGED <<settingVars, viewerVars, aliasVars, utilVars, downloads, fetches>>

\* lines 277-298, 212-218, 476-477: the pattern is read; the file is handed
\* to chrome.downloads.download with saveAs true and the request ends
DownloadCaptionsExport(r) ==
    /\ req[r].msg = "download_captions" /\ req[r].pc = "pattern"
    /\ IF req[r].rej
       THEN Escape(r) /\ UNCHANGED downloads
       ELSE /\ downloads' = downloads \cup
                    {Download("download_captions", req[r].format, TRUE)}
            /\ Finish(r)
            /\ UNCHANGED escaped
    /\ UNCHANGED <<received, faults, archiveVars, shotVars, guardVars, leaveVars>>
    /\ UNCHANGED <<settingVars, viewerVars, aliasVars, utilVars, fetches>>

\* -------------------------------------------------------- display_captions
\* onMessage: a display_captions message; the handler parks on the read of the aliases
ReceiveDisplayCaptions ==
    /\ Arrivals < MaxMsgs
    /\ received' = [received EXCEPT !["display_captions"] = @ + 1]
    /\ req' = Append(req, [msg |-> "display_captions", pc |-> "aliases", rej |-> FALSE,
                           seq |-> Arrivals + 1])
    /\ UNCHANGED <<faults, archiveVars, shotVars, guardVars, leaveVars>>
    /\ UNCHANGED <<settingVars, viewerVars, aliasVars, utilVars, downloads, fetches, escaped>>

\* lines 399-401, 518-519, 305-306: the aliases are read; createViewerTab is
\* called, outside any try block, and sets 'captionsToView'
DisplayCaptionsStart(r) ==
    /\ req[r].msg = "display_captions" /\ req[r].pc = "aliases"
    /\ \E got \in Outcomes :
        IF ~got
        THEN Fault(got) /\ Escape(r) /\ UNCHANGED captionsToView
        ELSE \E ok \in Outcomes :
                /\ Fault(ok)
                /\ captionsToView' = (captionsToView \/ ok)
                /\ Park(r, [req[r] EXCEPT !.pc = "view", !.rej = ~ok])
                /\ UNCHANGED escaped
    /\ UNCHANGED <<received, archiveVars, shotVars, guardVars, leaveVars>>
    /\ UNCHANGED <<settingVars, viewerTabs, aliasVars, utilVars, downloads, fetches>>

\* lines 306-308, 519-520: the transcript is stored and the viewer tab created
DisplayCaptionsStored(r) ==
    /\ req[r].msg = "display_captions" /\ req[r].pc = "view"
    /\ IF req[r].rej
       THEN Escape(r) /\ UNCHANGED viewerTabs
       ELSE /\ viewerTabs' = viewerTabs + 1
            /\ Finish(r)
            /\ UNCHANGED escaped
    /\ UNCHANGED <<received, faults, archiveVars, shotVars, guardVars, leaveVars>>
    /\ UNCHANGED <<settingVars, captionsToView, aliasVars, utilVars, downloads, fetches>>

\* ------------------------------------------------------------ error_logged
\* onMessage: an error_logged message; the handler parks on the read of the aliases
ReceiveErrorLogged ==
    /\ Arrivals < MaxMsgs
    /\ received' = [received EXCEPT !["error_logged"] = @ + 1]
    /\ req' = Append(req, [msg |-> "error_logged", pc |-> "aliases", rej |-> FALSE,
                           seq |-> Arrivals + 1])
    /\ UNCHANGED <<faults, archiveVars, shotVars, guardVars, leaveVars>>
    /\ UNCHANGED <<settingVars, viewerVars, aliasVars, utilVars, downloads, fetches, escaped>>

\* lines 399-401, 542-546: the aliases are read and the error is logged
ErrorLoggedStart(r) ==
    /\ req[r].msg = "error_logged" /\ req[r].pc = "aliases"
    /\ \E got \in Outcomes :
        /\ Fault(got)
        /\ IF got THEN Finish(r) /\ UNCHANGED escaped ELSE Escape(r)
    /\ UNCHANGED <<received, archiveVars, shotVars, guardVars, leaveVars>>
    /\ UNCHANGED <<settingVars, viewerVars, aliasVars, utilVars, downloads, fetches>>

\* The dispatcher: the worker is loaded, and the start-up events and the
\* messages of the popup and of the content script arrive in any order.
NextDispatch ==
    \/ OnStartup
    \/ ReceiveSaveOnLeave
    \/ ReceiveDownloadCaptions
    \/ ReceiveDisplayCaptions
    \/ ReceiveErrorLogged
    \/ \E r \in 1..Len(req) : EnsureConfig(r)
    \/ \E r \in 1..Len(req) : EnsureStored(r)
    \/ \E r \in 1..Len(req) : EnsureUpdated(r)
    \/ \E r \in 1..Len(req) : SaveOnLeaveStart(r)
    \/ \E r \in 1..Len(req) : SaveOnLeaveSettings(r)
    \/ \E r \in 1..Len(req) : SaveOnLeaveConfig(r)
    \/ \E r \in 1..Len(req) : SaveOnLeaveExport(r)
    \/ \E r \in 1..Len(req) : DownloadCaptionsStart(r)
    \/ \E r \in 1..Len(req) : DownloadCaptionsConfig(r)
    \/ \E r \in 1..Len(req) : DownloadCaptionsExport(r)
    \/ \E r \in 1..Len(req) : DisplayCaptionsStart(r)
    \/ \E r \in 1..Len(req) : DisplayCaptionsStored(r)
    \/ \E r \in 1..Len(req) : ErrorLoggedStart(r)

SpecDispatch == InitDispatch /\ [][NextDispatch]_vars

\* ensureDefaultSettings on its own: the configuration document and the
\* stored settings vary; the worker is loaded and the start-up events follow.
InitSettings ==
    /\ InitLoaded
    /\ NoTranscript
    /\ StoredSessions(0)
    /\ StoredScreenshots(0)
    /\ config \in Configs
    /\ defaultSaveFormat \in StoredFormats
    /\ autoSaveOnEnd \in BOOLEAN

NextSettings ==
    \/ OnStartup
    \/ \E r \in 1..Len(req) : EnsureConfig(r)
    \/ \E r \in 1..Len(req) : EnsureStored(r)
    \/ \E r \in 1..Len(req) : EnsureUpdated(r)

SpecSettings == InitSettings /\ [][NextSettings]_vars

\* --------------------------------------------------------------- chunkArray
SliceShort(array, begin, end) ==
    SubSeq(array, begin + 1, IF end - 1 < Len(array) THEN end - 1 ELSE Len(array))

\* Array.prototype.slice(begin, end) with 0 <= begin <= end: the elements
\* at the 0-based positions begin .. end - 1 that exist
Slice(array, begin, end) ==
    SubSeq(array, begin + 1, IF end < Len(array) THEN end ELSE Len(array))

\* lines 324-326: the loop of chunkArray from position i on
RECURSIVE ChunksFrom(_, _, _)
ChunksFrom(array, chunkSize, i) ==
    IF i < Len(array)
    THEN <<Slice(array, i, i + chunkSize)>> \o ChunksFrom(array, chunkSize, i + chunkSize)
    ELSE <<>>

\* lines 322-328
ChunkArray(array, chunkSize) == ChunksFrom(array, chunkSize, 0)

\* The chunking of one save on its own: the transcript has any length up to
\* MaxTranscriptLen, its entries being told apart by their position.
InitChunks ==
    /\ InitWorker
    /\ FixedSettings
    /\ autoSaveOnEnd = TRUE
    /\ StoredSessions(0)
    /\ StoredScreenshots(0)
    /\ speakerAliases = <<>> /\ objects = <<>>
    /\ processed = NoResult /\ exported = NoEntries /\ archived = NoEntries
    /\ fullTitle = <<>> /\ sanitizedName = <<>>
    /\ \E n \in 0..MaxTranscriptLen : transcriptArray = [i \in 1..n |-> i]
    /\ chunking = NoChunking

chunkFixed == <<clock, req, received, saved, session_index, chunkKeys, attendeeKeys,
                savedBefore, shotVars, guardVars, leaveVars, settingVars, downloads,
                fetches, escaped, viewerVars, aliasVars, fullTitle, sanitizedName>>

\* lines 427-430 at index i: the loop ends and chunkCount is set (line 433),
\* or chunk i is written under `${sessionId}_chunk_${i}`; a write that fails
\* ends the save in the catch block
WriteChunkOrEnd(chunks, stored, i) ==
    IF i < Len(chunks)
    THEN \E ok \in Outcomes :
            /\ Fault(ok)
            /\ chunking' =
                    IF ok
                    THEN [pc |-> "chunk", chunks |-> chunks, chunkCount |-> 0,
                          stored |-> [k \in 0..i |-> IF k = i THEN chunks[i + 1] ELSE stored[k]]]
                    ELSE [pc |-> "failed", chunks |-> chunks, chunkCount |-> 0,
                          stored |-> stored]
    ELSE /\ chunking' = [pc |-> "done", chunks |-> chunks, stored |-> stored,
                         chunkCount |-> Len(chunks)]
         /\ UNCHANGED faults

\* lines 427-430: chunkArray(transcriptArray, 100), and the first turn of the loop
SaveChunksStart ==
    /\ chunking.pc = "none"
    /\ WriteChunkOrEnd(ChunkArray(transcriptArray, CHUNK_SIZE), <<>>, 0)
    /\ UNCHANGED chunkFixed

\* lines 428-433: a chunk is written; the next turn of the loop
SaveChunksNext ==
    /\ chunking.pc = "chunk"
    /\ WriteChunkOrEnd(chunking.chunks, chunking.stored,
                       Cardinality(DOMAIN chunking.stored))
    /\ UNCHANGED chunkFixed

NextChunks ==
    \/ SaveChunksStart
    \/ SaveChunksNext

SpecChunks == InitChunks /\ [][NextChunks]_vars

\* ------------------------------------------------- getSanitizedMeetingName
\* the string 'Microsoft Teams' of line 7
PlatformName == <<"M", "i", "c", "r", "o", "s", "o", "f", "t", " ", "T", "e", "a", "m", "s">>
\* the string "Meeting" of lines 3 and 9
Meeting == <<"M", "e", "e", "t", "i", "n", "g">>
\* the characters of the class [<>:"/\\|?*\x00-\x1F] of line 9
ForbiddenCharacters == {"<", ">", ":", "\"", "/", "\\", "|", "?", "*", "\t"}

\* the pieces the titles are made of: a delimiter, white space, a letter, a
\* forbidden character and the platform name
TitlePieces == {<<"|">>, <<" ">>, <<"a">>, <<"?">>, PlatformName}

RECURSIVE TitlesOf(_)
\* the strings made of n pieces at most
TitlesOf(n) ==
    IF n = 0 THEN {<<>>}
    ELSE LET shorter == TitlesOf(n - 1)
         IN  shorter \cup {t \o piece : t \in shorter, piece \in TitlePieces}

\* String.prototype.indexOf: the first position at which pattern occurs in
\* str, 0 if it does not occur
IndexOf(str, pattern) ==
    LET occurs(p) == SubSeq(str, p, p + Len(pattern) - 1) = pattern
        positions == {p \in 1..(Len(str) - Len(pattern) + 1) : occurs(p)}
    IN  IF positions = {} THEN 0
        ELSE CHOOSE p \in positions : \A other \in positions : p <= other

\* String.prototype.split with a one-character separator
RECURSIVE Split(_, _)
Split(str, separator) ==
    LET at == IndexOf(str, <<separator>>)
    IN  IF at = 0 THEN <<str>>
        ELSE <<SubSeq(str, 1, at - 1)>> \o Split(SubSeq(str, at + 1, Len(str)), separator)

\* String.prototype.replace(pattern, '') with a string pattern: the first
\* occurrence only is removed
RemoveFirst(str, pattern) ==
    LET at == IndexOf(str, pattern)
    IN  IF at = 0 THEN str
        ELSE SubSeq(str, 1, at - 1) \o SubSeq(str, at + Len(pattern), Len(str))

\* line 9: replace(/[<>:"/\\|?*\x00-\x1F]/g, '_')
ReplaceForbidden(str) ==
    [p \in 1..Len(str) |-> IF str[p] \in ForbiddenCharacters THEN "_" ELSE str[p]]

\* lines 2-10; title is <<>> when fullTitle is absent and <<str>> when it
\* is the string str
GetSanitizedMeetingName(title) ==
    IF title = <<>> \/ title[1] = <<>> THEN Meeting
    ELSE LET parts == Split(title[1], "|")
             meetingName == IF Len(parts) > 2 THEN parts[2] ELSE parts[1]
             cleanedName == Trim(RemoveFirst(meetingName, PlatformName))
             replaced == ReplaceForbidden(cleanedName)
         IN  IF replaced = <<>> THEN Meeting ELSE replaced

\* The sanitising of a title on its own: the title is any string of
\* MaxTitlePieces pieces at most, or absent.
InitTitle ==
    /\ InitWorker
    /\ FixedSettings
    /\ speakerAliases = <<>> /\ objects = <<>> /\ transcriptArray = <<>>
    /\ processed = NoResult /\ exported = NoEntries /\ archived = NoEntries
    /\ autoSaveOnEnd = TRUE
    /\ StoredSessions(0)
    /\ StoredScreenshots(0)
    /\ fullTitle \in {<<>>} \cup {<<title>> : title \in TitlesOf(MaxTitlePieces)}
    /\ sanitizedName = <<>>
    /\ chunking = NoChunking

\* generateFilename, line 242: getSanitizedMeetingName(meetingTitle)
CallGetSanitizedMeetingName ==
    /\ sanitizedName = <<>>
    /\ sanitizedName' = <<GetSanitizedMeetingName(fullTitle)>>
    /\ UNCHANGED <<clock, req, received, saved, session_index, chunkKeys, attendeeKeys,
                   savedBefore, faults, shotVars, guardVars, leaveVars, settingVars,
                   downloads, fetches, escaped, viewerVars, aliasVars, fullTitle,
                   chunking>>

NextTitle == CallGetSanitizedMeetingName

SpecTitle == InitTitle /\ [][NextTitle]_vars

\* ---------------------------------------------------- session archive claims
IndexedIds == {session_index[p].id : p \in 1..Len(session_index)}
IndexedChunkKeys == UNION {ChunkKeysOf(session_index[p]) : p \in 1..Len(session_index)}
IsSaving(r, where) == req[r].msg = "save_session_history" /\ req[r].pc = where

\* C1: in every reachable state the persisted session_index holds at most
\* 10 entries, whatever save_session_history requests ran and however their
\* steps interleaved.
SessionIndexAtMostTen == Len(session_index) <= MaxSessions

\* a save that evicted an entry has written a full index
SaveEvictedAndWrote ==
    \E r \in 1..Len(req) :
        /\ IsSaving(r, "write") /\ ~req[r].rej
        /\ req[r].toDelete # NoEntry
        /\ Len(session_index) = MaxSessions
        /\ req[r].sessionId \in IndexedIds

\* C2: once more than 10 saves have completed, none of them failed and none
\* is in flight, the index has exactly 10 entries, the persisted chunk keys
\* are exactly those of the indexed sessions and every persisted attendee key
\* belongs to an indexed session.
NoOrphanedKeysAfterSaves ==
    (/\ req = <<>>
     /\ faults = 0
     /\ savedBefore + saved > MaxSessions)
        => /\ Len(session_index) = MaxSessions
           /\ chunkKeys = IndexedChunkKeys
           /\ attendeeKeys \subseteq IndexedIds

\* C3: the entry a save evicts has the smallest timestamp of the index it
\* is evicted from.
EvictsOldestEntry ==
    \A r \in 1..Len(req) :
        IsSaving(r, "evict") =>
            \A p \in 1..Len(req[r].idx) :
                req[r].toDelete.timestamp <= req[r].idx[p].timestamp

\* C4: the persisted session_index is ordered by timestamp, newest first.
SessionIndexNewestFirst ==
    \A p \in 1..(Len(session_index) - 1) :
        session_index[p].timestamp >= session_index[p + 1].timestamp

\* a save has written the index with its own, newer, entry in front
SaveWroteNewestInFront ==
    \E r \in 1..Len(req) :
        /\ IsSaving(r, "write") /\ ~req[r].rej
        /\ Len(session_index) >= 2
        /\ session_index[1].id = req[r].sessionId
        /\ session_index[1].timestamp > session_index[2].timestamp

\* -------------------------------------------------- screenshot buffer claims
IsStoring(r, where) == req[r].msg = "store_screenshot" /\ req[r].pc = where

\* the last MAX_SCREENSHOTS_PER_MEETING elements of frames, or all of them
LastFrames(frames) ==
    [p \in 1..(IF Len(frames) > MAX_SCREENSHOTS_PER_MEETING
               THEN MAX_SCREENSHOTS_PER_MEETING ELSE Len(frames)) |->
        frames[p + (IF Len(frames) > MAX_SCREENSHOTS_PER_MEETING
                    THEN Len(frames) - MAX_SCREENSHOTS_PER_MEETING ELSE 0)]]

\* C5: for every meetingId the buffer in the Map and the value persisted
\* under screenshots_{meetingId} hold at most 20 frames.
BuffersAtMostTwenty ==
    /\ \A m \in DOMAIN screenshotBuffers :
            Len(screenshotBuffers[m]) <= MAX_SCREENSHOTS_PER_MEETING
    /\ \A m \in DOMAIN screenshots :
            Len(screenshots[m]) <= MAX_SCREENSHOTS_PER_MEETING

\* a frame was pushed on a full buffer, which was trimmed and written
StoredOverCapacity ==
    \E r \in 1..Len(req) :
        /\ IsStoring(r, "set") /\ ~req[r].rej
        /\ Len(appended[req[r].meetingId]) > MAX_SCREENSHOTS_PER_MEETING
        /\ Len(screenshotBuffers[req[r].meetingId]) = MAX_SCREENSHOTS_PER_MEETING
        /\ screenshots[req[r].meetingId] = screenshotBuffers[req[r].meetingId]

\* C6: once the store_screenshot requests have completed (none failed, no
\* capture was ended or started), the buffer of a meeting, in the Map and in
\* storage, holds the last min(n, 20) frames pushed for it, in the order of
\* the pushes.
RetainsLastFramesInOrder ==
    (/\ req = <<>>
     /\ faults = 0
     /\ received["update_badge_status"] = 0)
        => \A m \in DOMAIN screenshotBuffers :
            /\ screenshotBuffers[m] = LastFrames(appended[m])
            /\ m \in DOMAIN screenshots
            /\ screenshots[m] = LastFrames(appended[m])

\* C7: once the capture of a meeting has ended, every request that arrived
\* no later than that message has finished, none failed and no
\* store_screenshot for the meeting arrived after it, neither the Map nor
\* storage holds a buffer for the meeting.
NoBufferAfterCaptureEnds ==
    \A m \in MeetingIds :
        (/\ endedAt[m] > 0
         /\ storedAt[m] < endedAt[m]
         /\ faults = 0
         /\ \A r \in 1..Len(req) : req[r].seq > endedAt[m])
            => /\ m \notin DOMAIN screenshotBuffers
               /\ m \notin DOMAIN screenshots

\* ------------------------------------------------------ auto-save guard claims
IsLeaving(r) == req[r].msg = "save_on_leave"
Accepted(r) == IsLeaving(r) /\ req[r].pc # "aliases"

\* C8: while autoSaveInProgress is set, the handling of a save_on_leave
\* request, for the remembered saveId or another, ends the request at once
\* and changes neither autoSaveInProgress nor lastAutoSaveId nor the exports.
DropsWhileInProgress ==
    [][\A r \in 1..Len(req) :
        (autoSaveInProgress /\ SaveOnLeaveStart(r))
            => /\ req' = Without(req, r)
               /\ UNCHANGED <<autoSaveInProgress, lastAutoSaveId, exports>>]_vars

\* requests were skipped while a save was in progress, one for the
\* remembered saveId and one for another
DroppedBothWhileInProgress ==
    \E d1 \in dropped, d2 \in dropped :
        /\ d1.inProgress /\ d1.saveId = d1.last
        /\ d2.inProgress /\ d2.saveId # d2.last

\* C9: a save_on_leave that arrives after a save for its saveId ended
\* without an error, the state not having been reset since that save was
\* accepted, is never accepted.
NeverSavesCompletedIdAgain == \A r \in 1..Len(req) : Accepted(r) => ~req[r].again

\* C10: the step in which an accepted save_on_leave fails leaves
\* autoSaveInProgress false and lastAutoSaveId null, and a save_on_leave
\* handled in such a state is not skipped: unless the read of the aliases
\* fails it is accepted and goes on to read the settings.
RetryAfterFailedSave ==
    [][\A r \in 1..Len(req) :
        /\ (Accepted(r) /\ req[r].rej /\ req' = Without(req, r))
                => (~autoSaveInProgress' /\ lastAutoSaveId' = Null)
        /\ (~autoSaveInProgress /\ lastAutoSaveId = Null /\ SaveOnLeaveStart(r))
                => IF req' = Without(req, r)
                   THEN faults' = faults + 1
                   ELSE /\ req'[r].pc = "settings"
                        /\ autoSaveInProgress'
                        /\ lastAutoSaveId' = req[r].saveId]_vars

\* a save_on_leave was accepted for a saveId whose earlier save had failed
AcceptedAfterFailure == \E r \in 1..Len(req) : Accepted(r) /\ req[r].retry

\* request r is in its save: it found auto-save on and a transcript, and
\* awaits the configuration or saveTranscript
IsExporting(r) == IsLeaving(r) /\ req[r].pc \in {"config", "pattern"}

\* C11: no two save_on_leave requests for the same saveId are in their save
\* at the same time: a save for key K never starts while an earlier save
\* for K has not finished.
OneSavePerKeyAtATime ==
    \A r1 \in 1..Len(req), r2 \in 1..Len(req) :
        (r1 # r2 /\ IsExporting(r1) /\ IsExporting(r2))
            => req[r1].saveId # req[r2].saveId

IsBadge(r) == req[r].msg = "update_badge_status"

\* C12: the step that handles update_badge_status with capturing=true
\* leaves autoSaveInProgress false and lastAutoSaveId null, so that the
\* test of line 484 fails for every saveId; and a save_on_leave handled
\* after a reset in a state with autoSaveInProgress false and lastAutoSaveId
\* null is accepted, unless the read of the aliases fails.
ResetPermitsNextSave ==
    [][\A r \in 1..Len(req) :
        /\ (IsBadge(r) /\ req[r].capturing /\ UpdateBadgeStatusStart(r)
                /\ faults' = faults)
                => /\ ~autoSaveInProgress' /\ lastAutoSaveId' = Null
                   /\ \A k \in SaveIds : ~IsDuplicateSave(k)'
        /\ (resets > 0 /\ ~autoSaveInProgress /\ lastAutoSaveId = Null
                /\ SaveOnLeaveStart(r) /\ faults' = faults)
                => /\ Accepted(r)'
                   /\ lastAutoSaveId' = req[r].saveId]_vars

\* after a reset a save_on_leave was accepted for a saveId that had been
\* exported before
AcceptedAfterReset ==
    \E r \in 1..Len(req) :
        /\ Accepted(r)
        /\ req[r].epoch > 0
        /\ ~req[r].again
        /\ exports[req[r].saveId] > 0

\* ------------------------------------------------------------ format claims
\* C13: the format selected for an export is a member of the configured
\* allowed-format set, whatever format was requested, whatever default
\* format is stored and whatever the configuration is.
SelectedFormatIsAllowed ==
    \A d \in downloads : Includes(AllowedFormats(config), d.format)

\* C14: saveTranscript selects the requested format when it is in the
\* allowed set; otherwise the configured default when that is in the allowed
\* set; otherwise the first element of the allowed set, when it has one.
SelectsRequestedDefaultOrFirst ==
    \A d \in downloads :
        LET allowed == AllowedFormats(config)
        IN  IF Includes(allowed, d.requested)
            THEN d.format = d.requested
            ELSE IF config.defaultSaveFormat # Undefined
                    /\ Includes(allowed, config.defaultSaveFormat)
            THEN d.format = config.defaultSaveFormat
            ELSE allowed # <<>> => d.format = allowed[1]

\* an export fell back to the first allowed format: neither the requested
\* format nor the configured default was allowed
FellBackToFirstAllowed ==
    \E d \in downloads :
        /\ ~Includes(AllowedFormats(config), d.requested)
        /\ ~Includes(AllowedFormats(config), config.defaultSaveFormat)
        /\ AllowedFormats(config) # <<>>
        /\ d.format = AllowedFormats(config)[1]
        /\ d.format # d.requested

\* C18: the extension of every exported file is the selected format, the
\* one substituted for {format} in its name, and its MIME type is that of
\* the same format.
ExtensionIsSelectedFormat ==
    \A d \in downloads :
        /\ d.extension = d.format
        /\ d.mimeType = (IF d.format = "md" THEN "text/markdown" ELSE "text/plain")

\* ------------------------------------------------------------- alias claims
\* C15: applyAliasesToTranscript returns the array it was given when there
\* is no alias; otherwise it returns an array of the same length whose i-th
\* entry has the other fields of the i-th input entry and, as Name, the
\* trimmed alias of its Name when there is one and it is not blank, and its
\* Name otherwise; and no step changes an entry of the input.
AliasesNamesOnly ==
    /\ [](processed # NoResult =>
            IF DOMAIN speakerAliases = {}
            THEN processed.array = "transcriptArray" /\ processed.items = transcriptArray
            ELSE /\ Len(processed.items) = Len(transcriptArray)
                 /\ \A i \in 1..Len(transcriptArray) :
                    LET entry == objects[transcriptArray[i]]
                        new == objects[processed.items[i]]
                    IN  /\ new.Text = entry.Text
                        /\ new.Name =
                            IF entry.Name \in DOMAIN speakerAliases
                               /\ Trim(speakerAliases[entry.Name]) # <<>>
                            THEN Trim(speakerAliases[entry.Name])
                            ELSE entry.Name)
    /\ [][\A i \in 1..Len(transcriptArray) :
            objects'[transcriptArray[i]] = objects[transcriptArray[i]]]_vars

\* applyAliasesToTranscript returned new entries: one renamed to an alias
\* that had to be trimmed, one that kept its Name because its alias is blank
RenamedTrimmedAndKeptBlank ==
    /\ processed.array = "new"
    /\ \E i \in 1..Len(transcriptArray), j \in 1..Len(transcriptArray) :
        LET ni == objects[transcriptArray[i]].Name
            nj == objects[transcriptArray[j]].Name
        IN  /\ ni \in DOMAIN speakerAliases
            /\ objects[processed.items[i]].Name = Trim(speakerAliases[ni])
            /\ objects[processed.items[i]].Name # speakerAliases[ni]
            /\ objects[processed.items[i]].Name # ni
            /\ nj \in DOMAIN speakerAliases
            /\ speakerAliases[nj] # <<>>
            /\ Trim(speakerAliases[nj]) = <<>>
            /\ objects[processed.items[j]].Name = nj
            /\ processed.items[j] # transcriptArray[j]

\* C20: the entries save_session_history persists as chunks carry the
\* aliased names of the stored alias map.
ArchivedNamesAreAliased ==
    archived.done =>
        /\ Len(archived.entries) = Len(transcriptArray)
        /\ \A i \in 1..Len(archived.entries) :
            archived.entries[i].Name =
                NewName(objects[transcriptArray[i]].Name, speakerAliases)

\* ------------------------------------------------------- dispatcher claims
\* C16: The configuration document is fetched at most once in the lifetime
\* of the process, however the calls of loadExtensionConfig overlap: as long
\* as no fetch and no storage operation has failed, fetch(CONFIG_URL) has
\* been called once at most.
FetchedAtMostOnce == faults = 0 => fetches <= 1

\* C17: For every command of the dispatcher, no exception and no rejected
\* promise escapes the handler: no async handler ends with a rejection.
NoRejectionEscapes == escaped = {}

IsDownloading(r) == req[r].msg = "download_captions"

\* C19: A save_on_leave request hands a file to chrome.downloads.download
\* only if the guard accepted it, the autoSaveOnEnd setting it read from
\* storage is true and its transcript is non-empty, and it does so with
\* saveAs false; every export of download_captions has saveAs true, and a
\* download_captions request goes on to saveTranscript whatever the state of
\* the guard is.
AutoSaveGatedDownloadPrompted ==
    [][/\ \A k \in SaveIds :
            exports'[k] # exports[k] =>
                \E r \in 1..Len(req) :
                    /\ Accepted(r) /\ req[r].saveId = k /\ SaveOnLeaveExport(r)
                    /\ req[r].settings.autoSaveOnEnd /\ req[r].captions
                    /\ Download("save_on_leave", req[r].formatToSave, FALSE) \in downloads'
       /\ \A d \in downloads' :
            /\ d.by \in {"save_on_leave", "download_captions"}
            /\ d.saveAs = (d.by = "download_captions")
            /\ (d \notin downloads /\ d.by = "save_on_leave") =>
                    \E k \in SaveIds : exports'[k] # exports[k]
       /\ \A r \in 1..Len(req) :
            (IsDownloading(r) /\ DownloadCaptionsStart(r) /\ faults' = faults) =>
                (Len(req') = Len(req) /\ req'[r].pc = "config")
       /\ \A r \in 1..Len(req) :
            (IsDownloading(r) /\ DownloadCaptionsExport(r) /\ ~req[r].rej) =>
                Download("download_captions", req[r].format, TRUE) \in downloads'
      ]_vars

\* C19 witness: a file was exported by save_on_leave without a prompt, and
\* one by download_captions with a prompt while an auto-save was in progress
AutoSavedAndDownloadedInProgress ==
    \E d1, d2 \in downloads :
        /\ d1.by = "save_on_leave" /\ ~d1.saveAs
        /\ d2.by = "download_captions" /\ d2.saveAs /\ d2.inProgress

\* ------------------------------------------------------------ title claims
\* str ends with suffix
EndsWith(str, suffix) ==
    Len(str) >= Len(suffix) /\ SubSeq(str, Len(str) - Len(suffix) + 1, Len(str)) = suffix

\* C21: getSanitizedMeetingName returns a name that is never empty ("Meeting"
\* for an absent title), has no white space around it, holds none of the
\* characters < > : " / \ | ? * and no control character, and from which
\* the platform suffix has been stripped.
SanitizedNameIsClean ==
    sanitizedName # <<>> =>
        LET name == sanitizedName[1]
        IN  /\ name # <<>>
            /\ fullTitle = <<>> => name = Meeting
            /\ name[1] # " " /\ name[Len(name)] # " "
            /\ \A p \in 1..Len(name) : name[p] \notin ForbiddenCharacters
            /\ ~EndsWith(name, PlatformName)

\* ---------------------------------------------------------- archive claims
\* request r has read the index and is about to push its entry and evict
IsEvicting(r) ==
    /\ IsSaving(r, "index") /\ ~req[r].rej
    /\ ExceedsCap(Append(req[r].idx, Metadata(req[r])))

\* C22: A save that evicts removes one entry, the one at the front of the
\* index it loaded, and deletes from storage the chunk keys and the
\* attendee key of that entry, and no key of another session: the keys of
\* the other entries it loaded and of its own entry stay.
EvictsFrontEntryOnly ==
    [][\A r \in 1..Len(req) :
        (IsEvicting(r) /\ SaveIndexLoaded(r) /\ faults' = faults) =>
            LET loaded == req[r].idx
                front == Head(loaded)
                kept == Tail(loaded) \o <<Metadata(req[r])>>
            IN  /\ req'[r].toDelete = front
                /\ req'[r].idx = kept
                /\ ChunkKeysOf(front) \cap chunkKeys' = {}
                /\ front.id \notin attendeeKeys'
                /\ \A p \in 1..Len(kept) :
                    /\ ChunkKeysOf(kept[p]) \cap chunkKeys \subseteq chunkKeys'
                    /\ kept[p].id \in attendeeKeys => kept[p].id \in attendeeKeys'
      ]_vars

\* the sequence of sequences joined in order
RECURSIVE Concat(_)
Concat(seqs) == IF seqs = <<>> THEN <<>> ELSE Head(seqs) \o Concat(Tail(seqs))

\* C23: A save that wrote all its chunks, of a transcript of n entries, has
\* stored ceil(n / 100) chunks under the indices 0 .. k - 1, of 100 entries
\* at most each; chunkCount is the number of the chunks stored (0 for an
\* empty transcript), and the chunks joined in the order of their indices
\* are the transcript.
ChunksAreTheTranscript ==
    chunking.pc = "done" =>
        LET n == Len(transcriptArray)
            k == (n + CHUNK_SIZE - 1) \div CHUNK_SIZE
            stored == chunking.stored
        IN  /\ DOMAIN stored = 0..(k - 1)
            /\ chunking.chunkCount = k
            /\ \A i \in DOMAIN stored : Len(stored[i]) \in 1..CHUNK_SIZE
            /\ Concat([c \in 1..k |-> stored[c - 1]]) = transcriptArray

\* C23 witness: a save has stored three chunks, the last one not full
StoredPartialLastChunk ==
    /\ chunking.pc = "done"
    /\ chunking.chunkCount = 3
    /\ Len(chunking.stored[2]) < CHUNK_SIZE

\* C24: Once a storage operation of a save_session_history request has
\* failed and every request has ended, every entry of the persisted
\* session_index still has all its chunkCount chunks in storage.
IndexedChunksPersistAfterFailure ==
    (req = <<>> /\ faults > 0) =>
        \A p \in 1..Len(session_index) : ChunkKeysOf(session_index[p]) \subseteq chunkKeys

\* ------------------------------------------------------------ guard claims
\* C25: Every accepted save_on_leave request comes to its end, whether its
\* save succeeds, fails or exports nothing, and autoSaveInProgress is false
\* when it has; the step that ends it sets the flag to false.
AcceptedSaveReturnsToIdle ==
    /\ \A n \in 1..MaxMsgs :
        (\E r \in 1..Len(req) : Accepted(r) /\ req[r].seq = n)
            ~> (~autoSaveInProgress /\ \A r \in 1..Len(req) : req[r].seq # n)
    /\ [][\A r \in 1..Len(req) :
            (Accepted(r) /\ \A q \in 1..Len(req') : req'[q].seq # req[r].seq)
                => ~autoSaveInProgress']_vars

\* C25 witness: every request has ended; one save exported a file, another
\* failed, and the guard is idle
IdleAfterExportAndFailure ==
    /\ req = <<>>
    /\ ~autoSaveInProgress
    /\ failedIds # {}
    /\ \E k \in SaveIds : exports[k] > 0

\* --------------------------------------------------------- settings claims
IsEnsuring(r) == req[r].msg = "ensureDefaultSettings"

\* C26: A run of ensureDefaultSettings that started when every earlier run
\* had ended without a failure, the configuration being the same and
\* nothing else having written the settings, calls chrome.storage.sync.set
\* for no key: it ends when it has read the settings, whatever the
\* configured default save format and the allowed formats are.
SecondRunWritesNothing ==
    [][\A r \in 1..Len(req) :
        (/\ IsEnsuring(r) /\ req[r].pc = "stored" /\ ~req[r].rej /\ req[r].settled
         /\ EnsureStored(r))
            => (/\ DOMAIN Updates(req[r].settings, config) = {}
                /\ req' = Without(req, r)
                /\ UNCHANGED <<autoSaveOnEnd, defaultSaveFormat>>)
      ]_vars

\* request r has made its sessionId and writes chunks under it
WritesChunks(r) ==
    /\ req[r].msg = "save_session_history" /\ req[r].pc # "aliases"
    /\ req[r].nChunks > 0

\* C27: The session ids of the persisted session_index are pairwise
\* distinct, and no two saves write chunks under the same key: two requests
\* that write chunks have different session ids, also when they are handled
\* within the same clock tick.
SessionIdsAreDistinct ==
    /\ \A p, q \in 1..Len(session_index) :
            p # q => session_index[p].id # session_index[q].id
    /\ \A r1, r2 \in 1..Len(req) :
            (r1 # r2 /\ WritesChunks(r1) /\ WritesChunks(r2))
                => req[r1].sessionId # req[r2].sessionId

\* request r has read the settings and has nothing to export: auto-save is
\* off or the transcript is empty
ExportsNothing(r) ==
    /\ IsLeaving(r) /\ req[r].pc = "settings" /\ ~req[r].rej
    /\ ~(req[r].settings.autoSaveOnEnd /\ req[r].captions)

\* C28: An accepted save_on_leave that exports nothing, auto-save being off
\* or the transcript empty, ends as a save that succeeded: no file is
\* exported, autoSaveInProgress becomes false and lastAutoSaveId keeps its
\* value, the key of the request if nothing else has set it; and a
\* save_on_leave for the key that is remembered is dropped although no file
\* was exported for it.
NoExportStillRemembersKey ==
    [][\A r \in 1..Len(req) :
        /\ (ExportsNothing(r) /\ SaveOnLeaveSettings(r))
                => /\ req' = Without(req, r)
                   /\ ~autoSaveInProgress'
                   /\ lastAutoSaveId' = lastAutoSaveId
                   /\ exports' = exports /\ downloads' = downloads
                   /\ failedIds' = failedIds
                   /\ (req[r].epoch = resets /\ received["save_on_leave"] = 1)
                        => lastAutoSaveId' = req[r].saveId
        /\ (/\ IsLeaving(r) /\ lastAutoSaveId = req[r].saveId
            /\ exports[req[r].saveId] = 0
            /\ SaveOnLeaveStart(r) /\ faults' = faults)
                => /\ req' = Without(req, r)
                   /\ UNCHANGED <<autoSaveInProgress, lastAutoSaveId, exports, downloads>>
      ]_vars

\* C28 witness: every request has ended; a save_on_leave was dropped for
\* the key remembered, no save being in progress, and no file has been
\* exported for that key nor has a save failed
DroppedWithoutAnyExport ==
    /\ req = <<>>
    /\ faults = 0
    /\ \E d \in dropped :
        ~d.inProgress /\ d.last = d.saveId /\ exports[d.saveId] = 0

\* ------------------------------------------------------- screenshot claims
\* C29: Whenever no store_screenshot and no clear is in flight, the buffer
\* the Map holds for a meetingId is the value stored under
\* `screenshots_${meetingId}`, after any interleaving of appends and clears
\* and also when a storage write has failed.
BuffersEqualStorage ==
    req = <<>> =>
        \A m \in DOMAIN screenshotBuffers :
            m \in DOMAIN screenshots /\ screenshots[m] = screenshotBuffers[m]


====
